---- MODULE Spec2Model ----
(***************************************************************************)
(* Model of backend/server.py of real-estate-analytics: the comparative    *)
(* metrics (calculate_metrics), the ranker (get_top_bottom), the           *)
(* affordability merger and its summary endpoint, the regression trend     *)
(* and the two fetchers.                                                   *)
(*                                                                         *)
(* Numbers.  The program computes in binary floating point; the model      *)
(* computes the same expressions in exact rational arithmetic over         *)
(* integers.  A value rounded to 2 decimals is held as an integer number   *)
(* of hundredths, a value rounded to 4 decimals as an integer number of    *)
(* ten-thousandths; round() is round-half-to-even, as Python's.            *)
(***************************************************************************)
EXTENDS Integers, Sequences, FiniteSets, TLC

VARIABLES
    df,        \* calculate_metrics: the cleaned dataset, a sequence of rows
    results,   \* calculate_metrics: the returned list of Comparison Results
    mpc,       \* "load" while the dataset is supplied, "done" after the call
    data,      \* get_top_bottom: the list of Comparison Results passed in
    metric,    \* get_top_bottom: "active", "pending" or "ratio"
    n,         \* get_top_bottom: the number of entries asked for
    top,       \* get_top_bottom: first element of the returned pair
    bottom,    \* get_top_bottom: second element of the returned pair
    rpc,       \* "load" while the list is supplied, "done" after the call
    homeowner_df,  \* affordability: the homeowner table, one row per region
    renter_df,     \* affordability: the renter table, one row per region
    aresults,      \* the list calculate_affordability_metrics returned
    summary,       \* the body /api/affordability-summary returned
    apc,           \* "load", then "calculated" or "responded"
    series,    \* calculate_regression_trend: the input list (its `data`)
    trend,     \* calculate_regression_trend: the returned list
    tpc,       \* "load" while the list is supplied, "done" after the call
    fn,        \* fetch: the fetcher called
    fkey,      \* fetch: its argument (granularity / data_type)
    response,  \* fetch: what client.get returned, NoResponse before
    fexc,      \* fetch: the exception in flight or last handled, "none" if none
    ftable,    \* fetch: the rows of the DataFrame returned
    fpc,       \* fetch: the statement the coroutine is at
    chunksize, \* fetch: the chunksize handed to pd.read_csv
    request,   \* endpoint: the request handled, [endpoint, granularity, region]
    table,     \* endpoint: what fetch_realtor_data returned to the handler
    zillow,    \* endpoint: what fetch_zillow_affordability_data returned, per data_type
    tasks,     \* /api/zillow-data: the two client.get tasks handed to asyncio.gather
    finished,  \* /api/zillow-data: the task numbers in the order they finished
    raised,    \* endpoint: the exception that reached the handler's except clause
    http,      \* endpoint: the HTTP response, [status, body, detail]
    epc        \* endpoint: "load", "gather" or "responded"

metricsVars == <<df, results, mpc>>
rankVars == <<data, metric, n, top, bottom, rpc>>

affordVars == <<homeowner_df, renter_df, aresults, summary, apc>>

trendVars == <<series, trend, tpc>>

endpointVars == <<request, table, zillow, tasks, finished, raised, http, epc>>

vars == <<df, results, mpc, data, metric, n, top, bottom, rpc,
          homeowner_df, renter_df, aresults, summary, apc,
          series, trend, tpc, fn, fkey, response, fexc, ftable, fpc, chunksize,
          request, table, zillow, tasks, finished, raised, http, epc>>

fetchVars == <<fn, fkey, response, fexc, ftable, fpc, chunksize>>

IdleTrend == series = <<>> /\ trend = <<>> /\ tpc = "idle"
NoResponse == [status |-> 0, body |-> [kind |-> "none", rows |-> <<>>]]
ChunkSize == 10000
IdleFetch ==
    /\ fn = "none" /\ fkey = "none" /\ response = NoResponse
    /\ fexc = "none" /\ ftable = <<>> /\ fpc = "idle" /\ chunksize = ChunkSize

NoRequest == [endpoint |-> "none", granularity |-> "none", region |-> <<>>]
NoReply == [status |-> 0, body |-> [kind |-> "none", value |-> <<>>], detail |-> "none"]
IdleEndpoint ==
    /\ request = NoRequest /\ table = <<>> /\ zillow = <<>> /\ tasks = <<>>
    /\ finished = <<>> /\ raised = "none" /\ http = NoReply /\ epc = "idle"

IdleMetrics == df = <<>> /\ results = <<>> /\ mpc = "idle"
IdleRank ==
    data = <<>> /\ metric = "active" /\ n = 0 /\ top = <<>> /\ bottom = <<>> /\ rpc = "idle"
EmptySummary == [leastAffordable |-> <<>>, mostAffordable |-> <<>>]
IdleAfford ==
    /\ homeowner_df = <<>> /\ renter_df = <<>> /\ aresults = <<>>
    /\ summary = EmptySummary /\ apc = "idle"

(***************************************************************************)
(* Arithmetic helpers                                                      *)
(***************************************************************************)

\* round(a / b) for b > 0, ties to even (Python 3 round()).
RoundDiv(a, b) ==
    LET q == a \div b
        r == a % b
    IN  IF 2 * r < b THEN q
        ELSE IF 2 * r > b THEN q + 1
        ELSE IF q % 2 = 0 THEN q ELSE q + 1

RECURSIVE SumSeq(_)
SumSeq(s) == IF s = <<>> THEN 0 ELSE Head(s) + SumSeq(Tail(s))

RECURSIVE MaxSeq(_)
MaxSeq(s) ==
    IF Len(s) = 1 THEN s[1]
    ELSE LET m == MaxSeq(Tail(s)) IN IF s[1] >= m THEN s[1] ELSE m

\* s without the elements that repeat an earlier one (order of first appearance).
RECURSIVE Unique(_)
Unique(s) ==
    IF s = <<>> THEN <<>>
    ELSE LET front == Unique(SubSeq(s, 1, Len(s) - 1))
             last  == s[Len(s)]
         IN  IF \E i \in 1..Len(front) : front[i] = last
             THEN front ELSE Append(front, last)

Column(d, c) == [i \in 1..Len(d) |-> d[i][c]]

(***************************************************************************)
(* calculate_metrics  (server.py 156-260)                                  *)
(***************************************************************************)

\* The inputs explored.  A row is one (region, month) line of the cleaned
\* realtor table; counts are whole numbers.
Regions == {"A", "B"}
Months  == {201703, 201803, 201903, 202403}
Counts  == {<<0, 50>>, <<50, 0>>, <<20, 50>>, <<50, 20>>, <<40, 40>>}
RowsOf(reg) ==
    IF reg = "A"
    THEN { [region |-> reg, ym |-> m, active |-> c[1], pending |-> c[2]] :
             m \in Months, c \in Counts }
    ELSE { [region |-> reg, ym |-> m, active |-> 50, pending |-> 50] : m \in Months }
Rows == UNION { RowsOf(reg) : reg \in Regions }
MaxRows == 4

PreStart == 201601
PreEnd == 201912
MinPoints == 3
MinSample == 30

latest_month(d) == MaxSeq(Column(d, "ym"))
latest_month_num(d) == latest_month(d) % 100

\* Variant of the window without the calendar-month test.
InPrePandemic_AnyMonth(d, row) ==
    /\ row.ym >= PreStart
    /\ row.ym <= PreEnd

\* df[(ym >= 201601) & (ym <= 201912) & (ym % 100 == latest_month_num)]
InPrePandemic(d, row) ==
    /\ row.ym >= PreStart
    /\ row.ym <= PreEnd
    /\ row.ym % 100 = latest_month_num(d)

pre_pandemic(d) == SelectSeq(d, LAMBDA row : InPrePandemic(d, row))

current_data(d) == SelectSeq(d, LAMBDA row : row.ym = latest_month(d))

\* hist[hist > 0]
Valid(s) == SelectSeq(s, LAMBDA v : v > 0)

\* Variant of the gate that accepts two baseline points.
EnoughData_AtLeastTwo(va, vp, ca, cp) ==
    Len(va) >= MinPoints - 1 /\ Len(vp) >= MinPoints - 1 /\ ca > 0 /\ cp > 0

\* len(valid_active) >= 3 and len(valid_pending) >= 3 and
\* current_active > 0 and current_pending > 0
EnoughData(va, vp, ca, cp) ==
    Len(va) >= MinPoints /\ Len(vp) >= MinPoints /\ ca > 0 /\ cp > 0

\* current_active < 30 or current_pending < 30 or hist_active_mean < 30 or
\* hist_pending_mean < 30; a mean is sum/len, compared without dividing.
TooSmall(va, vp, ca, cp) ==
    \/ ca < MinSample
    \/ cp < MinSample
    \/ SumSeq(va) < MinSample * Len(va)
    \/ SumSeq(vp) < MinSample * Len(vp)

\* Variant that divides by the mean already rounded to 2 decimals.
PctChange_FromRounded(c, s, k) ==
    LET h == RoundDiv(100 * s, k) IN RoundDiv((100 * c - h) * 10000, h)

\* ((current - mean) / mean) * 100 rounded to 2 decimals, mean = s / k:
\* (c*k - s) * 100 / s, in hundredths.
PctChange(c, s, k) == RoundDiv((c * k - s) * 10000, s)

\* ((current_ratio - historical_ratio) / historical_ratio) * 100 rounded to 2
\* decimals, current_ratio = cp/ca, historical_ratio = (sp/kp)/(sa/ka).
RatioChange(ca, cp, sa, ka, sp, kp) ==
    RoundDiv((cp * kp * sa - ca * sp * ka) * 10000, ca * sp * ka)

\* The dict appended for one region (server.py 236-247).
ResultOf(reg, ca, cp, va, vp) ==
    LET sa == SumSeq(va)
        ka == Len(va)
        sp == SumSeq(vp)
        kp == Len(vp)
    IN  [ region            |-> reg,
          currentActive     |-> 100 * ca,
          historicalActive  |-> RoundDiv(100 * sa, ka),
          changePercentage  |-> PctChange(ca, sa, ka),
          currentPending    |-> 100 * cp,
          historicalPending |-> RoundDiv(100 * sp, kp),
          pendingChange     |-> PctChange(cp, sp, kp),
          currentRatio      |-> RoundDiv(10000 * cp, ca),
          historicalRatio   |-> RoundDiv(10000 * sp * ka, kp * sa),
          ratioChange       |-> RatioChange(ca, cp, sa, ka, sp, kp) ]

\* One pass of the loop body: the list of 0 or 1 results for region reg.
\* With means >= 30 the three changes are finite, so the isfinite test passes.
RegionResult(d, reg) ==
    LET cur         == SelectSeq(current_data(d), LAMBDA row : row.region = reg)
        current_row == cur[1]
        ca          == current_row.active
        cp          == current_row.pending
        historical  == SelectSeq(pre_pandemic(d), LAMBDA row : row.region = reg)
        va          == Valid(Column(historical, "active"))
        vp          == Valid(Column(historical, "pending"))
    IN  IF EnoughData(va, vp, ca, cp) /\ ~TooSmall(va, vp, ca, cp)
        THEN << ResultOf(reg, ca, cp, va, vp) >>
        ELSE << >>

RECURSIVE LoopRegions(_, _)
LoopRegions(d, regs) ==
    IF regs = <<>> THEN <<>>
    ELSE RegionResult(d, Head(regs)) \o LoopRegions(d, Tail(regs))

calculate_metrics(d) ==
    IF d = <<>> THEN <<>>
    ELSE LoopRegions(d, Unique(Column(current_data(d), "region")))

\* The caller's table: the provider's file lists the newest month first.
AppendRow ==
    /\ mpc = "load"
    /\ Len(df) < MaxRows
    /\ \E row \in Rows :
         /\ IF df = <<>> THEN TRUE ELSE row.ym <= df[Len(df)].ym
         /\ df' = Append(df, row)
    /\ UNCHANGED <<results, mpc>>
    /\ UNCHANGED <<rankVars, affordVars, trendVars, fetchVars, endpointVars>>

CalculateMetrics ==
    /\ mpc = "load"
    /\ results' = calculate_metrics(df)
    /\ mpc' = "done"
    /\ UNCHANGED df
    /\ UNCHANGED <<rankVars, affordVars, trendVars, fetchVars, endpointVars>>

InitMetrics ==
    /\ df = <<>>
    /\ results = <<>>
    /\ mpc = "load"
    /\ IdleRank /\ IdleAfford /\ IdleTrend /\ IdleFetch /\ IdleEndpoint

NextMetrics == AppendRow \/ CalculateMetrics

SpecMetrics == InitMetrics /\ [][NextMetrics]_vars

\* A second family of datasets for calculate_metrics: one row per (region,
\* month), with months of another calendar month (201702), before the window
\* (201503), after it (202003), and a second region whose latest month
\* (202404) is later than the first region's.
HistoryMonths == {201503, 201702, 201703, 201803, 201903, 202003, 202403}
HistoryCounts == {<<40, 40>>, <<80, 80>>, <<0, 80>>}
HistoryRows ==
    { [region |-> "A", ym |-> m, active |-> c[1], pending |-> c[2]] :
        m \in HistoryMonths, c \in HistoryCounts }
    \cup { [region |-> "B", ym |-> m, active |-> 80, pending |-> 80] : m \in {201803, 202404} }
MaxHistory == 5

AppendHistoryRow ==
    /\ mpc = "load"
    /\ Len(df) < MaxHistory
    /\ \E row \in HistoryRows :
         /\ IF df = <<>> THEN TRUE
            ELSE LET last == df[Len(df)]
                 IN  \/ row.ym < last.ym
                     \/ row.ym = last.ym /\ last.region = "A" /\ row.region = "B"
         /\ df' = Append(df, row)
    /\ UNCHANGED <<results, mpc>>
    /\ UNCHANGED <<rankVars, affordVars, trendVars, fetchVars, endpointVars>>

NextBaseline == AppendHistoryRow \/ CalculateMetrics

SpecBaseline == InitMetrics /\ [][NextBaseline]_vars

(***************************************************************************)
(* Claims about calculate_metrics.  The quantities the claims speak of     *)
(* are computed here from the dataset by index sets, not by the            *)
(* operators that model the code.                                          *)
(***************************************************************************)

RECURSIVE SumOver(_, _, _)
SumOver(d, idx, col) ==
    IF idx = {} THEN 0
    ELSE LET i == CHOOSE j \in idx : TRUE
         IN  d[i][col] + SumOver(d, idx \ {i}, col)

MaxMonth(d) == CHOOSE m \in { d[i].ym : i \in 1..Len(d) } : \A j \in 1..Len(d) : d[j].ym <= m

\* Indices of the positive values of column col in reg's baseline rows.
BaselineIdx(d, reg, col) ==
    { i \in 1..Len(d) :
        /\ d[i].region = reg
        /\ d[i].ym \in 201601..201912
        /\ d[i].ym % 100 = MaxMonth(d) % 100
        /\ d[i][col] > 0 }

CurrentIdx(d, reg) == { i \in 1..Len(d) : d[i].region = reg /\ d[i].ym = MaxMonth(d) }
HasCurrent(d, reg) == d # <<>> /\ CurrentIdx(d, reg) # {}
CurrentOf(d, reg, col) ==
    LET i == CHOOSE j \in CurrentIdx(d, reg) : \A k \in CurrentIdx(d, reg) : j <= k
    IN  d[i][col]

\* mean < 30, for a non-empty index set
MeanBelow30(d, idx, col) == idx # {} /\ SumOver(d, idx, col) < 30 * Cardinality(idx)

Insufficient(d, reg) ==
    \/ Cardinality(BaselineIdx(d, reg, "active")) < 3
    \/ Cardinality(BaselineIdx(d, reg, "pending")) < 3
    \/ MeanBelow30(d, BaselineIdx(d, reg, "active"), "active")
    \/ MeanBelow30(d, BaselineIdx(d, reg, "pending"), "pending")
    \/ /\ HasCurrent(d, reg)
       /\ \/ CurrentOf(d, reg, "active") < 30
          \/ CurrentOf(d, reg, "pending") < 30
          \/ CurrentOf(d, reg, "active") <= 0
          \/ CurrentOf(d, reg, "pending") <= 0

Emitted(reg) == \E i \in 1..Len(results) : results[i].region = reg

\* C1: calculate_metrics emits no Comparison Result for a region that has
\* fewer than 3 positive baseline values for active or for pending, or whose
\* current active, current pending, baseline mean active or baseline mean
\* pending is below 30, or whose current active or pending is <= 0.
C1_NoResultWhenInsufficient ==
    mpc = "done" =>
        \A reg \in Regions : (df # <<>> /\ Insufficient(df, reg)) => ~Emitted(reg)

\* A region with a current row of 40/40 and three baseline rows, one of them
\* with a non-positive active count, was processed and skipped.
C1_Witness ==
    /\ mpc = "done"
    /\ df # <<>>
    /\ MaxMonth(df) = 202403
    /\ HasCurrent(df, "A")
    /\ CurrentOf(df, "A", "active") = 40
    /\ CurrentOf(df, "A", "pending") = 40
    /\ Cardinality({ i \in 1..Len(df) : df[i].region = "A" /\ df[i].ym < 201912 }) = 3
    /\ Cardinality(BaselineIdx(df, "A", "active")) = 2
    /\ Cardinality(BaselineIdx(df, "A", "pending")) = 3
    /\ ~Emitted("A")

\* C2 as stated: every percent-change field equals the rounded formula applied
\* to the current and historical values emitted in the same result.
C2_FromEmittedValues ==
    mpc = "done" =>
        \A i \in 1..Len(results) :
            LET r == results[i]
            IN  /\ r.changePercentage =
                     RoundDiv((r.currentActive - r.historicalActive) * 10000, r.historicalActive)
                /\ r.pendingChange =
                     RoundDiv((r.currentPending - r.historicalPending) * 10000, r.historicalPending)
                /\ r.ratioChange =
                     RoundDiv((r.currentRatio - r.historicalRatio) * 10000, r.historicalRatio)

\* C2 amended: every percent-change field equals the formula, rounded to 2
\* decimals, applied to the unrounded current value and baseline mean (for the
\* ratio: the unrounded pending/active quotients); the emitted current and
\* historical fields are those same values rounded to 2 (ratios: 4) decimals.
C2_FromUnroundedValues ==
    mpc = "done" =>
        \A i \in 1..Len(results) :
            LET r  == results[i]
                ia == BaselineIdx(df, r.region, "active")
                ip == BaselineIdx(df, r.region, "pending")
                sa == SumOver(df, ia, "active")
                sp == SumOver(df, ip, "pending")
                ka == Cardinality(ia)
                kp == Cardinality(ip)
                ca == CurrentOf(df, r.region, "active")
                cp == CurrentOf(df, r.region, "pending")
            IN  /\ r.currentActive = 100 * ca
                /\ r.currentPending = 100 * cp
                /\ r.historicalActive = RoundDiv(100 * sa, ka)
                /\ r.historicalPending = RoundDiv(100 * sp, kp)
                /\ r.currentRatio = RoundDiv(10000 * cp, ca)
                /\ r.historicalRatio = RoundDiv(10000 * sp * ka, kp * sa)
                \* (c - s/k) / (s/k) * 100, in hundredths
                /\ r.changePercentage = RoundDiv((ca * ka - sa) * 10000, sa)
                /\ r.pendingChange = RoundDiv((cp * kp - sp) * 10000, sp)
                \* (cp/ca - (sp/kp)/(sa/ka)) / ((sp/kp)/(sa/ka)) * 100, in hundredths
                /\ r.ratioChange =
                     RoundDiv((cp * kp * sa - ca * sp * ka) * 10000, ca * sp * ka)

\* A result was emitted whose baseline mean of active listings is not a
\* whole number of hundredths (100/3).
C2_Witness ==
    /\ mpc = "done"
    /\ df # <<>>
    /\ MaxMonth(df) = 202403
    /\ \E i \in 1..Len(results) :
         /\ results[i].region = "A"
         /\ SumOver(df, BaselineIdx(df, "A", "active"), "active") = 100
         /\ Cardinality(BaselineIdx(df, "A", "active")) = 3
         /\ results[i].historicalActive = 3333

ResultFor(reg) == results[CHOOSE i \in 1..Len(results) : results[i].region = reg]

\* round(mean, 2) of column col over the index set idx, in hundredths
MeanOver(d, idx, col) == RoundDiv(100 * SumOver(d, idx, col), Cardinality(idx))

\* C14: the reference calendar month is the trailing two digits of the
\* maximum year_month of the whole dataset; a region is compared only if it
\* has a row at that maximum, and the baseline values that are counted and
\* averaged for it are exactly the positive active (resp. pending) values of
\* its own rows with year_month in [201601, 201912] and the same trailing two
\* digits: a result is emitted exactly when those values pass the gates, and
\* its historical fields are their means.
C14_BaselineIsSameMonthWindowOfRegion ==
    (mpc = "done" /\ df # <<>>) =>
        \A reg \in Regions :
            /\ Emitted(reg) <=> (HasCurrent(df, reg) /\ ~Insufficient(df, reg))
            /\ Emitted(reg) =>
                 /\ ResultFor(reg).historicalActive =
                        MeanOver(df, BaselineIdx(df, reg, "active"), "active")
                 /\ ResultFor(reg).historicalPending =
                        MeanOver(df, BaselineIdx(df, reg, "pending"), "pending")

\* Region A is emitted from a dataset that also holds a positive row of A in
\* another calendar month or outside 2016-2019, with a value that would move
\* the mean.
C14_Witness ==
    /\ mpc = "done"
    /\ Emitted("A")
    /\ ResultFor("A").historicalActive = 4000
    /\ \E i \in 1..Len(df) :
         /\ df[i].region = "A"
         /\ df[i].ym \in {201503, 201702, 202003}
         /\ df[i].active = 80

(***************************************************************************)
(* get_top_bottom  (server.py 262-300)                                     *)
(***************************************************************************)

\* The lists explored: Comparison Results of distinct regions.  The three
\* percent changes (hundredths) tie between some regions; the current and
\* historical fields differ per metric so that the projections differ.
RankItem(reg, a, p, r) ==
    [ region            |-> reg,
      currentActive     |-> 5000,  historicalActive  |-> 4000, changePercentage |-> a,
      currentPending    |-> 4500,  historicalPending |-> 3500, pendingChange    |-> p,
      currentRatio      |-> 9000,  historicalRatio   |-> 8750, ratioChange      |-> r ]

RankItems ==
    { RankItem("R1", 1000, -500, 0),
      RankItem("R2", 1000, 2000, -3000),
      RankItem("R3", -2000, 2000, 500),
      RankItem("R4", 0, 0, 500),
      RankItem("R5", 2500, -500, -3000),
      RankItem("R6", -2000, 1500, 0) }
MaxList == 4
MaxN == 3

Metrics == {"active", "pending", "ratio"}

\* key=lambda x: x[...]; anything but 'active' and 'pending' takes the else branch
KeyField(m) ==
    IF m = "active" THEN "changePercentage"
    ELSE IF m = "pending" THEN "pendingChange"
    ELSE "ratioChange"
CurrentField(m) ==
    IF m = "active" THEN "currentActive"
    ELSE IF m = "pending" THEN "currentPending"
    ELSE "currentRatio"
HistoricalField(m) ==
    IF m = "active" THEN "historicalActive"
    ELSE IF m = "pending" THEN "historicalPending"
    ELSE "historicalRatio"

\* Insert x into the descending list s behind every element with a key >= its own.
RECURSIVE InsertDesc(_, _, _)
InsertDesc(s, x, f) ==
    IF s = <<>> THEN <<x>>
    ELSE IF Head(s)[f] >= x[f] THEN <<Head(s)>> \o InsertDesc(Tail(s), x, f)
    ELSE <<x>> \o s

RECURSIVE InsertAsc(_, _, _)
InsertAsc(s, x, f) ==
    IF s = <<>> THEN <<x>>
    ELSE IF Head(s)[f] <= x[f] THEN <<Head(s)>> \o InsertAsc(Tail(s), x, f)
    ELSE <<x>> \o s

\* Variant without reverse=True: ascending and stable.
RECURSIVE SortedAsc(_, _)
SortedAsc(s, f) ==
    IF s = <<>> THEN <<>>
    ELSE InsertAsc(SortedAsc(SubSeq(s, 1, Len(s) - 1), f), s[Len(s)], f)

\* sorted(data, key=..., reverse=True): descending and stable.
RECURSIVE SortedDesc(_, _)
SortedDesc(s, f) ==
    IF s = <<>> THEN <<>>
    ELSE InsertDesc(SortedDesc(SubSeq(s, 1, Len(s) - 1), f), s[Len(s)], f)

Min2(a, b) == IF a <= b THEN a ELSE b

\* s[:k], s[k:] and s[-k:] for k >= 1
FirstN(s, k) == SubSeq(s, 1, Min2(k, Len(s)))
DropN(s, k) == SubSeq(s, Min2(k, Len(s)) + 1, Len(s))
\* Variant of s[-k:] that takes what s[:k] leaves over.
LastN_AfterFirstN(s, k) == SubSeq(s, Min2(k, Len(s)) + 1, Len(s))

LastN(s, k) == SubSeq(s, Len(s) - Min2(k, Len(s)) + 1, Len(s))

\* {'region': ..., 'current': ..., 'prePandemic': ..., 'changePercentage': ...}
Entry(item, m) ==
    [ region           |-> item.region,
      current          |-> item[CurrentField(m)],
      prePandemic      |-> item[HistoricalField(m)],
      changePercentage |-> item[KeyField(m)] ]

Entries(s, m) == [i \in 1..Len(s) |-> Entry(s[i], m)]

get_top(d, m, k) == Entries(FirstN(SortedDesc(d, KeyField(m)), k), m)
get_bottom(d, m, k) == Entries(LastN(SortedDesc(d, KeyField(m)), k), m)

AppendResult ==
    /\ rpc = "load"
    /\ Len(data) < MaxList
    /\ \E item \in RankItems :
         /\ \A i \in 1..Len(data) : data[i].region # item.region
         /\ data' = Append(data, item)
    /\ UNCHANGED <<metric, n, top, bottom, rpc>>
    /\ UNCHANGED <<metricsVars, affordVars, trendVars, fetchVars, endpointVars>>

GetTopBottom ==
    /\ rpc = "load"
    /\ \E m \in Metrics, k \in 1..MaxN :
         /\ metric' = m
         /\ n' = k
         /\ top' = get_top(data, m, k)
         /\ bottom' = get_bottom(data, m, k)
    /\ rpc' = "done"
    /\ UNCHANGED data
    /\ UNCHANGED <<metricsVars, affordVars, trendVars, fetchVars, endpointVars>>

InitRank ==
    /\ data = <<>>
    /\ metric = "active"
    /\ n = 0
    /\ top = <<>>
    /\ bottom = <<>>
    /\ rpc = "load"
    /\ IdleMetrics /\ IdleAfford /\ IdleTrend /\ IdleFetch /\ IdleEndpoint

NextRank == AppendResult \/ GetTopBottom

SpecRank == InitRank /\ [][NextRank]_vars

(***************************************************************************)
(* Claims about get_top_bottom                                             *)
(***************************************************************************)

NonIncreasing(s) == \A i \in 1..Len(s) - 1 : s[i].changePercentage >= s[i + 1].changePercentage

\* The entry e is the projection of the item of data with e's region.
FromData(e) ==
    \E i \in 1..Len(data) :
        /\ data[i].region = e.region
        /\ data[i][KeyField(metric)] = e.changePercentage
        /\ data[i][CurrentField(metric)] = e.current
        /\ data[i][HistoricalField(metric)] = e.prePandemic

DistinctRegions(s) == \A i, j \in 1..Len(s) : s[i].region = s[j].region => i = j

InEntries(s, reg) == \E i \in 1..Len(s) : s[i].region = reg

\* C3: top is the first N and bottom the last N entries of the list sorted
\* descending by the selected percent change: both hold min(N, len) entries
\* of the list in non-increasing key order, nothing left out of top has a
\* larger key than an entry of top, nothing left out of bottom a smaller key
\* than an entry of bottom; top starts with the maximum, bottom ends with the
\* minimum.
C3_TopBottomOfDescendingSort ==
    rpc = "done" =>
        LET k  == Min2(n, Len(data))
            kf == KeyField(metric)
        IN  /\ Len(top) = k /\ Len(bottom) = k
            /\ \A i \in 1..k : FromData(top[i]) /\ FromData(bottom[i])
            /\ DistinctRegions(top) /\ DistinctRegions(bottom)
            /\ NonIncreasing(top) /\ NonIncreasing(bottom)
            /\ \A i \in 1..Len(data) :
                 /\ ~InEntries(top, data[i].region) => data[i][kf] <= top[k].changePercentage
                 /\ ~InEntries(bottom, data[i].region) => data[i][kf] >= bottom[1].changePercentage
            /\ \A i \in 1..Len(data) :
                 k >= 1 => /\ top[1].changePercentage >= data[i][kf]
                           /\ bottom[k].changePercentage <= data[i][kf]

\* A list of four results ranked with N = 2 by pending change: top and bottom
\* are disjoint, and both contain a tie.
C3_Witness ==
    /\ rpc = "done"
    /\ Len(data) = 4 /\ n = 2 /\ metric = "pending"
    /\ top[1].changePercentage = 2000 /\ top[2].changePercentage = 2000
    /\ bottom[1].changePercentage = -500 /\ bottom[2].changePercentage = -500

EntrySet(s) == {s[i] : i \in 1..Len(s)}

\* C19: for a list of L results and N >= 1, top and bottom both hold
\* min(N, L) entries; they share no entry when L >= 2N and exactly
\* 2*min(N, L) - L entries when L < 2N; when L <= N both are the complete
\* sorted list.
C19_TopBottomOverlap ==
    (rpc = "done" /\ n >= 1) =>
        LET L      == Len(data)
            k      == Min2(n, L)
            shared == EntrySet(top) \cap EntrySet(bottom)
        IN  /\ Len(top) = k /\ Len(bottom) = k
            /\ Cardinality(EntrySet(top)) = k /\ Cardinality(EntrySet(bottom)) = k
            /\ L >= 2 * n => shared = {}
            /\ L < 2 * n => Cardinality(shared) = 2 * k - L
            /\ L <= n => top = bottom /\ Len(top) = L

\* Three results ranked with N = 2: the middle one of the sorted list is the
\* last of top and the first of bottom.
C19_Witness ==
    /\ rpc = "done"
    /\ Len(data) = 3 /\ n = 2
    /\ top[2] = bottom[1]
    /\ top[1] # bottom[2]

(***************************************************************************)
(* calculate_affordability_metrics (server.py 563-669) and                 *)
(* /api/affordability-summary (server.py 699-737)                          *)
(*                                                                         *)
(* A table row is [RegionName, latest]: the region and its cell in the     *)
(* column latest_month (the last date column of the homeowner table).  A   *)
(* cell or a field that may be missing is a sequence: None (NaN, None) or  *)
(* <<v>>.  Affordability values are held in hundredths.                    *)
(***************************************************************************)

None == <<>>
Some(v) == <<v>>

RegionNames == <<"R1", "R2", "R3", "R4", "R5">>
HomeownerCells == {None, Some(0), Some(30), Some(50)}
RenterCells == {None, Some(0), Some(20)}
MaxRegions == 3
TopN == 10

\* pd.isna(value) or value == 0
Invalid(cell) == cell = None \/ cell = Some(0)

\* renter_df[renter_df['RegionName'] == region]
Matching(t, reg) == SelectSeq(t, LAMBDA row : row.RegionName = reg)

\* Variant of the loop body that keeps a region without renter data.
AffordabilityOfRow_KeepUnmatched(homeowner_row, rdf) ==
    LET renter_data == Matching(rdf, homeowner_row.RegionName)
    IN  IF renter_data = <<>> \/ Invalid(renter_data[1].latest)
        THEN << [ region                 |-> homeowner_row.RegionName,
                  homeownerAffordability |-> homeowner_row.latest,
                  renterAffordability    |-> None,
                  affordabilityGap       |-> None ] >>
        ELSE << [ region                 |-> homeowner_row.RegionName,
                  homeownerAffordability |-> homeowner_row.latest,
                  renterAffordability    |-> renter_data[1].latest,
                  affordabilityGap       |->
                      IF Invalid(homeowner_row.latest) THEN None
                      ELSE Some(homeowner_row.latest[1] - renter_data[1].latest[1]) ] >>

\* The loop body (582-641): the list of 0 or 1 results for one homeowner row.
AffordabilityOfRow(homeowner_row, rdf) ==
    LET renter_data     == Matching(rdf, homeowner_row.RegionName)
        renter_value    == renter_data[1].latest
        homeowner_value == IF Invalid(homeowner_row.latest) THEN None
                           ELSE homeowner_row.latest
    IN  IF renter_data = <<>> THEN <<>>
        ELSE IF Invalid(renter_value) THEN <<>>
        ELSE << [ region                 |-> homeowner_row.RegionName,
                  homeownerAffordability |-> homeowner_value,
                  renterAffordability    |-> renter_value,
                  affordabilityGap       |->
                      IF homeowner_value = None THEN None
                      ELSE Some(homeowner_value[1] - renter_value[1]) ] >>

RECURSIVE LoopHomeowners(_, _)
LoopHomeowners(hdf, rdf) ==
    IF hdf = <<>> THEN <<>>
    ELSE AffordabilityOfRow(Head(hdf), rdf) \o LoopHomeowners(Tail(hdf), rdf)

valid_results(rs) == SelectSeq(rs, LAMBDA r : r.affordabilityGap # None)
invalid_results(rs) == SelectSeq(rs, LAMBDA r : r.affordabilityGap = None)

\* sorted(valid_results, key=lambda x: x['affordabilityGap'], reverse=True)
RECURSIVE InsertByGap(_, _)
InsertByGap(s, x) ==
    IF s = <<>> THEN <<x>>
    ELSE IF Head(s).affordabilityGap[1] >= x.affordabilityGap[1]
         THEN <<Head(s)>> \o InsertByGap(Tail(s), x)
    ELSE <<x>> \o s

RECURSIVE SortedByGap(_)
SortedByGap(s) ==
    IF s = <<>> THEN <<>>
    ELSE InsertByGap(SortedByGap(SubSeq(s, 1, Len(s) - 1)), s[Len(s)])

\* Variant that concatenates in the opposite order.
sorted_results_InvalidFirst(rs) == invalid_results(rs) \o SortedByGap(valid_results(rs))

\* sorted_valid_results + invalid_results
sorted_results(rs) == SortedByGap(valid_results(rs)) \o invalid_results(rs)

calculate_affordability_metrics(hdf, rdf) ==
    IF hdf = <<>> \/ rdf = <<>> THEN <<>>
    ELSE sorted_results(LoopHomeowners(hdf, rdf))

Reverse(s) == [i \in 1..Len(s) |-> s[Len(s) + 1 - i]]

\* The response body of get_affordability_summary once both tables are fetched.
affordability_summary(hdf, rdf) ==
    LET rs == calculate_affordability_metrics(hdf, rdf)
    IN  IF hdf = <<>> \/ rdf = <<>> THEN EmptySummary
        ELSE IF rs = <<>> THEN EmptySummary
        ELSE [ leastAffordable |-> FirstN(sorted_results(rs), TopN),
               mostAffordable  |-> Reverse(LastN(SortedByGap(valid_results(rs)), TopN)) ]

\* The two fetched tables: the next region of the homeowner table, with or
\* without a row of the same RegionName in the renter table.
AppendRegion ==
    /\ apc = "load"
    /\ Len(homeowner_df) < MaxRegions
    /\ \E h \in HomeownerCells :
         LET reg == RegionNames[Len(homeowner_df) + 1]
         IN  /\ homeowner_df' = Append(homeowner_df, [RegionName |-> reg, latest |-> h])
             /\ \/ UNCHANGED renter_df
                \/ \E r \in RenterCells :
                     renter_df' = Append(renter_df, [RegionName |-> reg, latest |-> r])
    /\ UNCHANGED <<aresults, summary, apc>>
    /\ UNCHANGED <<metricsVars, rankVars, trendVars, fetchVars, endpointVars>>

CalculateAffordabilityMetrics ==
    /\ apc = "load"
    /\ aresults' = calculate_affordability_metrics(homeowner_df, renter_df)
    /\ apc' = "calculated"
    /\ UNCHANGED <<homeowner_df, renter_df, summary>>
    /\ UNCHANGED <<metricsVars, rankVars, trendVars, fetchVars, endpointVars>>

GetAffordabilitySummary ==
    /\ apc = "load"
    /\ aresults' = IF homeowner_df = <<>> \/ renter_df = <<>> THEN <<>>
                   ELSE calculate_affordability_metrics(homeowner_df, renter_df)
    /\ summary' = affordability_summary(homeowner_df, renter_df)
    /\ apc' = "responded"
    /\ UNCHANGED <<homeowner_df, renter_df>>
    /\ UNCHANGED <<metricsVars, rankVars, trendVars, fetchVars, endpointVars>>

InitAfford ==
    /\ homeowner_df = <<>>
    /\ renter_df = <<>>
    /\ aresults = <<>>
    /\ summary = EmptySummary
    /\ apc = "load"
    /\ IdleMetrics /\ IdleRank /\ IdleTrend /\ IdleFetch /\ IdleEndpoint

NextAfford == AppendRegion \/ CalculateAffordabilityMetrics \/ GetAffordabilitySummary

SpecAfford == InitAfford /\ [][NextAfford]_vars

(***************************************************************************)
(* Claims about the affordability merger and its summary                   *)
(***************************************************************************)

HasRenterRow(reg) == \E i \in 1..Len(renter_df) : renter_df[i].RegionName = reg
RenterCell(reg) ==
    LET i == CHOOSE j \in 1..Len(renter_df) : renter_df[j].RegionName = reg
    IN  renter_df[i].latest

PositionsOf(rs, reg) == { i \in 1..Len(rs) : rs[i].region = reg }

\* Every entry of rs for reg has no gap and stands behind every entry with a gap.
GaplessAtEnd(rs, reg) ==
    \A i \in PositionsOf(rs, reg) :
        /\ rs[i].affordabilityGap = None
        /\ \A j \in 1..Len(rs) : rs[j].affordabilityGap # None => j < i

C5_GapBearingFirstDescending ==
    apc = "calculated" =>
        \A i, j \in 1..Len(aresults) :
            i < j =>
                /\ aresults[i].affordabilityGap = None => aresults[j].affordabilityGap = None
                /\ (aresults[i].affordabilityGap # None /\ aresults[j].affordabilityGap # None)
                       => aresults[i].affordabilityGap[1] >= aresults[j].affordabilityGap[1]

\* The homeowner table lists a gapless region first and two gap-bearing
\* regions in ascending order of gap; the result reorders all three.
C5_Witness ==
    /\ apc = "calculated"
    /\ Len(homeowner_df) = 3 /\ Len(aresults) = 3
    /\ homeowner_df[1].latest = Some(0)
    /\ homeowner_df[2].latest = Some(30)
    /\ homeowner_df[3].latest = Some(50)
    /\ aresults[1].region = "R3" /\ aresults[1].affordabilityGap = Some(30)
    /\ aresults[2].region = "R2" /\ aresults[2].affordabilityGap = Some(10)
    /\ aresults[3].region = "R1" /\ aresults[3].affordabilityGap = None

\* C6: neither leastAffordable nor mostAffordable of the summary response
\* contains a region whose affordabilityGap is None.
C6_NoGaplessInSummary ==
    apc = "responded" =>
        /\ \A i \in 1..Len(summary.leastAffordable) :
             summary.leastAffordable[i].affordabilityGap # None
        /\ \A i \in 1..Len(summary.mostAffordable) :
             summary.mostAffordable[i].affordabilityGap # None

(***************************************************************************)
(* calculate_affordability_metrics over tables with their date columns     *)
(*                                                                         *)
(* Here a table is [columns, rows]: the set of its date columns (a date    *)
(* YYYY-MM-DD is the number YYYYMMDD, which sorts as the string does) and  *)
(* one row [RegionName, values] per region, values mapping each date       *)
(* column to a cell.                                                       *)
(***************************************************************************)

Dates == {20240131, 20240229}
ColumnSets == {{20240131}, {20240229}, {20240131, 20240229}}
HomeownerValues == {None, Some(30), Some(50)}
RenterValues == {None, Some(20)}
MaxDatedRegions == 2

\* sorted(date_columns)[-1]
LatestColumn(columns) == CHOOSE d \in columns : \A e \in columns : e <= d

\* homeowner_row[latest_month] for every homeowner row
HomeownerAt(t, latest) ==
    [ i \in 1..Len(t.rows) |->
        [RegionName |-> t.rows[i].RegionName, latest |-> t.rows[i].values[latest]] ]

\* renter_row[latest_month] for every renter row; in a table without that
\* column the access raises KeyError and the region is skipped (604-607),
\* as it is for a missing value (599-602).
RenterAt(t, latest) ==
    [ i \in 1..Len(t.rows) |->
        [RegionName |-> t.rows[i].RegionName,
         latest     |-> IF latest \in t.columns THEN t.rows[i].values[latest] ELSE None] ]

\* calculate_affordability_metrics (563-669) on tables with date columns;
\* without a date column in the homeowner table sorted(...)[-1] raises and
\* line 667 returns [].
calculate_affordability_metrics_dated(h, r) ==
    IF h.rows = <<>> \/ r.rows = <<>> THEN <<>>
    ELSE IF h.columns = {} THEN <<>>
    ELSE LET latest == LatestColumn(h.columns)
         IN  calculate_affordability_metrics(HomeownerAt(h, latest), RenterAt(r, latest))

\* The next region of the homeowner table, with or without a row of the same
\* RegionName in the renter table.
AppendDatedRegion ==
    /\ apc = "load"
    /\ Len(homeowner_df.rows) < MaxDatedRegions
    /\ \E hv \in [homeowner_df.columns -> HomeownerValues] :
         LET reg == RegionNames[Len(homeowner_df.rows) + 1]
         IN  /\ homeowner_df' =
                    [homeowner_df EXCEPT !.rows = Append(@, [RegionName |-> reg, values |-> hv])]
             /\ \/ UNCHANGED renter_df
                \/ \E rv \in [renter_df.columns -> RenterValues] :
                     renter_df' =
                        [renter_df EXCEPT !.rows = Append(@, [RegionName |-> reg, values |-> rv])]
    /\ UNCHANGED <<aresults, summary, apc>>
    /\ UNCHANGED <<metricsVars, rankVars, trendVars, fetchVars, endpointVars>>

CalculateAffordabilityMetricsDated ==
    /\ apc = "load"
    /\ aresults' = calculate_affordability_metrics_dated(homeowner_df, renter_df)
    /\ apc' = "calculated"
    /\ UNCHANGED <<homeowner_df, renter_df, summary>>
    /\ UNCHANGED <<metricsVars, rankVars, trendVars, fetchVars, endpointVars>>

InitAffordDates ==
    /\ \E hc \in ColumnSets : homeowner_df = [columns |-> hc, rows |-> <<>>]
    /\ \E rc \in ColumnSets : renter_df = [columns |-> rc, rows |-> <<>>]
    /\ aresults = <<>>
    /\ summary = EmptySummary
    /\ apc = "load"
    /\ IdleMetrics /\ IdleRank /\ IdleTrend /\ IdleFetch /\ IdleEndpoint

NextAffordDates == AppendDatedRegion \/ CalculateAffordabilityMetricsDated

SpecAffordDates == InitAffordDates /\ [][NextAffordDates]_vars

(***************************************************************************)
(* Claims about the comparison date                                        *)
(***************************************************************************)

RowOf(t, reg) == t.rows[CHOOSE i \in 1..Len(t.rows) : t.rows[i].RegionName = reg]
InTable(t, reg) == \E i \in 1..Len(t.rows) : t.rows[i].RegionName = reg
Present(cell) == cell # None /\ cell # Some(0)

\* C15: the gap of a region is its homeowner value minus its renter value at
\* the latest date column present in both tables, and it is computed
\* whenever both values at that column are present (non-missing, non-zero);
\* a date column of the homeowner table alone is never the comparison date.
C15_GapAtLatestSharedDate ==
    (apc = "calculated" /\ homeowner_df.columns \cap renter_df.columns # {}) =>
        LET shared == LatestColumn(homeowner_df.columns \cap renter_df.columns)
        IN  \A i \in 1..Len(homeowner_df.rows) :
                LET reg == homeowner_df.rows[i].RegionName
                    hv  == homeowner_df.rows[i].values[shared]
                IN  (InTable(renter_df, reg) /\ Present(hv)
                        /\ Present(RowOf(renter_df, reg).values[shared])) =>
                    \E k \in 1..Len(aresults) :
                        /\ aresults[k].region = reg
                        /\ aresults[k].affordabilityGap =
                              Some(hv[1] - RowOf(renter_df, reg).values[shared][1])

(***************************************************************************)
(* calculate_regression_trend  (server.py 671-697)                         *)
(*                                                                         *)
(* An input point is None, NaN or a number.  Positions are counted from 0  *)
(* as in the code: position i is element i + 1 of the sequence.  A fitted  *)
(* value is the exact rational <<num, den>>, den > 0.                      *)
(***************************************************************************)

NoneCell == [kind |-> "None", v |-> 0]
NaNCell == [kind |-> "NaN", v |-> 0]
Num(x) == [kind |-> "num", v |-> x]
Points == {NoneCell, NaNCell, Num(1), Num(2), Num(3)}
MaxLen == 7

MinTrendPoints == 3
TrendWindow == 6

\* x is not None and not np.isnan(x)
IsValid(c) == c.kind = "num"

\* [(i, x) for i, x in enumerate(data) if ...]
RECURSIVE ValidFrom(_, _)
ValidFrom(d, i) ==
    IF i >= Len(d) THEN <<>>
    ELSE (IF IsValid(d[i + 1]) THEN << <<i, d[i + 1].v>> >> ELSE <<>>) \o ValidFrom(d, i + 1)

valid_data(d) == ValidFrom(d, 0)

\* Variant without the window: every valid point.
Used_All(valid) == valid

\* valid_data[-6:]
Used(valid) == LastN(valid, TrendWindow)

AllNone(d) == [i \in 1..Len(d) |-> None]

\* Variant of the threshold that accepts two points.
TooFew_BelowTwo(k) == k < MinTrendPoints - 1

\* len(data) < 3  /  len(valid_data) < 3
TooFew(k) == k < MinTrendPoints

\* Variant with a strict comparison.
InRange_AfterFirst(i, first) == i > first

\* if i >= valid_indices[0]
InRange(i, first) == i >= first

RECURSIVE SumX(_)
SumX(u) == IF u = <<>> THEN 0 ELSE Head(u)[1] + SumX(Tail(u))
RECURSIVE SumY(_)
SumY(u) == IF u = <<>> THEN 0 ELSE Head(u)[2] + SumY(Tail(u))
RECURSIVE SumXX(_)
SumXX(u) == IF u = <<>> THEN 0 ELSE Head(u)[1] * Head(u)[1] + SumXX(Tail(u))
RECURSIVE SumXY(_)
SumXY(u) == IF u = <<>> THEN 0 ELSE Head(u)[1] * Head(u)[2] + SumXY(Tail(u))

\* np.polyfit(x, y, 1) on k points with distinct x: the least-squares line
\*   slope = S / D,  intercept = (sum(y) * D - S * sum(x)) / (k * D)
\* with S = k*sum(xy) - sum(x)*sum(y) and D = k*sum(xx) - sum(x)^2 > 0.
FitS(k, sx, sy, sxy) == k * sxy - sx * sy
FitD(k, sx, sxx) == k * sxx - sx * sx

\* slope * i + intercept
FitAt(i, k, sx, sy, S, D) == << S * i * k + sy * D - S * sx, k * D >>

calculate_regression_trend(d) ==
    IF TooFew(Len(d)) THEN AllNone(d)
    ELSE LET valid == valid_data(d)
         IN  IF TooFew(Len(valid)) THEN AllNone(d)
             ELSE LET u     == Used(valid)
                      first == u[1][1]
                      k     == Len(u)
                      sx    == SumX(u)
                      sy    == SumY(u)
                      S     == FitS(k, sx, sy, SumXY(u))
                      D     == FitD(k, sx, SumXX(u))
                  IN  [ p \in 1..Len(d) |->
                          IF InRange(p - 1, first)
                          THEN FitAt(p - 1, k, sx, sy, S, D)
                          ELSE None ]

AppendPoint ==
    /\ tpc = "load"
    /\ Len(series) < MaxLen
    /\ \E c \in Points : series' = Append(series, c)
    /\ UNCHANGED <<trend, tpc>>
    /\ UNCHANGED <<metricsVars, rankVars, affordVars, fetchVars, endpointVars>>

CalculateRegressionTrend ==
    /\ tpc = "load"
    /\ trend' = calculate_regression_trend(series)
    /\ tpc' = "done"
    /\ UNCHANGED series
    /\ UNCHANGED <<metricsVars, rankVars, affordVars, fetchVars, endpointVars>>

InitTrend ==
    /\ series = <<>>
    /\ trend = <<>>
    /\ tpc = "load"
    /\ IdleMetrics /\ IdleRank /\ IdleAfford /\ IdleFetch /\ IdleEndpoint

NextTrend == AppendPoint \/ CalculateRegressionTrend

SpecTrend == InitTrend /\ [][NextTrend]_vars

(***************************************************************************)
(* Claims about calculate_regression_trend.  Positions are 0-based.        *)
(***************************************************************************)

Positions == 0..(Len(series) - 1)
ValidPos == { i \in Positions : series[i + 1].kind \notin {"None", "NaN"} }
\* The last six valid positions: those with fewer than six valid positions after them.
UsedPos ==
    LET V == ValidPos IN { i \in V : Cardinality({ j \in V : j > i }) < 6 }
FirstOf(S) == CHOOSE i \in S : \A j \in S : i <= j

RECURSIVE SumResidual(_, _)
\* Sum over the positions in S of w(i) * (y_i - trend_i) * den_i, w(i) = 1 or i.
SumResidual(S, weighted) ==
    IF S = {} THEN 0
    ELSE LET i == CHOOSE j \in S : TRUE
             t == trend[i + 1]
         IN  (IF weighted THEN i ELSE 1) * (series[i + 1].v * t[2] - t[1])
               + SumResidual(S \ {i}, weighted)

\* C7: with fewer than 3 non-missing values the result has the input's
\* length and holds only None.
C7_AllNoneBelowThreePoints ==
    (tpc = "done" /\ Cardinality(ValidPos) < 3) =>
        /\ Len(trend) = Len(series)
        /\ \A p \in 1..Len(trend) : trend[p] = None

\* A list of at least three entries, two of them numbers and one NaN.
C7_Witness ==
    /\ tpc = "done"
    /\ Len(series) >= 3
    /\ Cardinality(ValidPos) = 2
    /\ \E p \in 1..Len(series) : series[p] = NaNCell
    /\ \A p \in 1..Len(trend) : trend[p] = None

\* C8: with at least 3 non-missing values the result has the input's length,
\* is None before the first of the last 6 non-missing positions, and from that
\* position to the end holds the values of one line (equal steps), which is
\* the least-squares line of the last 6 non-missing points (the residuals sum
\* to zero, plain and weighted by position); for [None, None, 1, 2, 3] it is
\* None, None, 1, 2, 3 (slope 1, intercept -1).
C8_LeastSquaresLineOfLastSix ==
    (tpc = "done" /\ Cardinality(ValidPos) >= 3) =>
        LET first == FirstOf(UsedPos)
            den   == trend[first + 1][2]
        IN  /\ Len(trend) = Len(series)
            /\ \A i \in Positions : i < first => trend[i + 1] = None
            /\ \A i \in Positions : i >= first =>
                   /\ trend[i + 1] # None
                   /\ trend[i + 1][2] = den /\ den > 0
            /\ \A i \in Positions : (i >= first /\ i + 1 \in Positions) =>
                   trend[i + 2][1] - trend[i + 1][1] = trend[first + 2][1] - trend[first + 1][1]
            /\ SumResidual(UsedPos, FALSE) = 0
            /\ SumResidual(UsedPos, TRUE) = 0
            /\ series = <<NoneCell, NoneCell, Num(1), Num(2), Num(3)>> =>
                   \A i \in 2..4 : trend[i + 1][1] = (1 * i - 1) * trend[i + 1][2]

\* Six numbers not on a line around a missing point: the fit uses all six
\* and covers the missing position.
C8_Witness ==
    /\ tpc = "done"
    /\ Len(series) = 7
    /\ Cardinality(ValidPos) = 6
    /\ series[1] = Num(3) /\ series[2] = Num(1) /\ series[4] = NoneCell /\ series[7] = Num(2)
    /\ trend[4] # None

\* C9 as stated: with at least 3 valid points the result is None at exactly
\* the positions before the first valid input point.
C9_NoneExactlyBeforeFirstValid ==
    (tpc = "done" /\ Cardinality(ValidPos) >= 3) =>
        LET first == FirstOf(ValidPos)
        IN  /\ Len(trend) = Len(series)
            /\ \A i \in Positions : (trend[i + 1] = None) <=> (i < first)

\* C9 amended: with at least 3 valid points the result is aligned 1:1 with
\* the input and is None at exactly the positions before the first of the
\* last 6 valid points, which is the first valid point when there are at most
\* 6 valid points; that position and every later one hold a fitted value.
C9_NoneExactlyBeforeFirstUsed ==
    (tpc = "done" /\ Cardinality(ValidPos) >= 3) =>
        LET first == FirstOf(UsedPos)
        IN  /\ Len(trend) = Len(series)
            /\ \A i \in Positions : (trend[i + 1] = None) <=> (i < first)
            /\ Cardinality(ValidPos) <= 6 => first = FirstOf(ValidPos)

\* Seven valid points: the first lies outside the fit and gets None.
C9_Witness ==
    /\ tpc = "done"
    /\ Cardinality(ValidPos) = 7
    /\ trend[1] = None
    /\ trend[2] # None

(***************************************************************************)
(* fetch_realtor_data (server.py 81-154) and                               *)
(* fetch_zillow_affordability_data (server.py 513-561)                     *)
(*                                                                         *)
(* One call, statement by statement.  The network and the provider are the *)
(* environment: client.get either raises or returns a status and a body.   *)
(* A body is empty (""), blank (white space only), garbage (text read_csv  *)
(* cannot parse), other_columns (a CSV without the columns asked for) or   *)
(* csv (the expected columns and some rows).  A raw cell is <<v>> for the  *)
(* text of a number and None for anything else.                            *)
(***************************************************************************)

Fetchers == {"fetch_realtor_data", "fetch_zillow_affordability_data"}
REALTOR_URLS == {"national", "state", "metro", "county", "zip"}
ZILLOW_AFFORDABILITY_URLS ==
    {"homeowner", "renter", "total_payment", "mortgage_payment", "affordable_price", "median_price"}
Keys == REALTOR_URLS \cup ZILLOW_AFFORDABILITY_URLS \cup {"unknown"}
Statuses == {200, 204, 301, 404, 500}
MaxBodyRows == 2

\* .get(key) finds a URL
KnownKey(f, key) ==
    IF f = "fetch_realtor_data" THEN key \in REALTOR_URLS
    ELSE key \in ZILLOW_AFFORDABILITY_URLS

RawRow(m, a) ==
    [ region |-> "A", month_date_yyyymm |-> m, active_listing_count |-> a,
      pending_listing_count |-> Some(40), median_days_on_market |-> Some(30),
      price_reduced_count |-> Some(5) ]
RawRows == { RawRow(Some(202403), Some(50)), RawRow(None, Some(50)), RawRow(Some(202403), None) }
OtherRows == << [RegionID |-> Some(1)] >>

Bodies ==
    { [kind |-> k, rows |-> <<>>] : k \in {"empty", "blank", "garbage"} }
      \cup { [kind |-> "other_columns", rows |-> OtherRows] }
      \cup { [kind |-> "csv", rows |-> rs] :
                 rs \in UNION { [1..k -> RawRows] : k \in 0..MaxBodyRows } }

\* The exceptions the statements of the try block raise; every one of them is
\* a subclass of Exception.
NetworkErrors == {"ConnectError", "TimeoutException"}
ExceptionKinds == NetworkErrors \cup {"HTTPStatusError", "ParserError", "ValueError"}

\* Variant handler that catches only httpx errors.
Catches_HttpOnly(kind) == kind \in NetworkErrors \cup {"HTTPStatusError"}

\* except Exception as e
Catches(kind) == kind \in ExceptionKinds

\* response.raise_for_status() passes (httpx: a 2xx status)
IsSuccess(status) == status \in 200..299

\* not response.text.strip()
IsBlank(body) == body.kind \in {"empty", "blank"}

\* chunk.dropna(subset=['month_date_yyyymm'] + numeric_columns), after
\* pd.to_numeric(errors='coerce') turned every non-number into NaN
Complete(row) ==
    /\ row.month_date_yyyymm # None
    /\ row.active_listing_count # None
    /\ row.pending_listing_count # None
    /\ row.median_days_on_market # None
    /\ row.price_reduced_count # None

Clean(rows) == SelectSeq(rows, Complete)

\* Variant of the chunked read that keeps the first chunk only.
CleanChunkedBy_FirstChunkOnly(rows, size) == Clean(FirstN(rows, size))

\* for chunk in pd.read_csv(..., chunksize=size): clean the chunk, append it;
\* then pd.concat(chunks).
RECURSIVE CleanChunkedBy(_, _)
CleanChunkedBy(rows, size) ==
    IF rows = <<>> THEN <<>>
    ELSE Clean(FirstN(rows, size)) \o CleanChunkedBy(DropN(rows, size), size)

\* The chunked read of county and zip (111-131).
CleanChunked(rows) == CleanChunkedBy(rows, chunksize)

\* The DataFrame the parse step builds from a csv body.
Parsed(f, key, body) ==
    IF f = "fetch_zillow_affordability_data" THEN body.rows
    ELSE IF key \in {"zip", "county"} THEN CleanChunked(body.rows)
    ELSE Clean(body.rows)

\* pd.read_csv raises: text that is no CSV, or (realtor, usecols) a CSV
\* without the columns asked for.
ParseError(f, body) ==
    IF body.kind = "garbage" THEN "ParserError"
    ELSE IF body.kind = "other_columns" /\ f = "fetch_realtor_data" THEN "ValueError"
    ELSE "none"

\* The caller awaits fetch_x(key).
FetchCall ==
    /\ fpc = "idle"
    /\ \E f \in Fetchers, key \in Keys : fn' = f /\ fkey' = key
    /\ fpc' = "lookup"
    /\ UNCHANGED <<response, fexc, ftable, chunksize>>
    /\ UNCHANGED <<metricsVars, rankVars, affordVars, trendVars, endpointVars>>

\* url = URLS.get(key); if not url: return pd.DataFrame()
FetchLookup ==
    /\ fpc = "lookup"
    /\ IF KnownKey(fn, fkey)
       THEN fpc' = "get" /\ UNCHANGED ftable
       ELSE fpc' = "returned" /\ ftable' = <<>>
    /\ UNCHANGED <<fn, fkey, response, fexc, chunksize>>
    /\ UNCHANGED <<metricsVars, rankVars, affordVars, trendVars, endpointVars>>

\* response = await client.get(url)
FetchGet ==
    /\ fpc = "get"
    /\ \/ \E e \in NetworkErrors :
            /\ fexc' = e
            /\ fpc' = "except"
            /\ UNCHANGED response
       \/ \E st \in Statuses, b \in Bodies :
            /\ response' = [status |-> st, body |-> b]
            /\ fpc' = "raise_for_status"
            /\ UNCHANGED fexc
    /\ UNCHANGED <<fn, fkey, ftable, chunksize>>
    /\ UNCHANGED <<metricsVars, rankVars, affordVars, trendVars, endpointVars>>

\* response.raise_for_status()
FetchRaiseForStatus ==
    /\ fpc = "raise_for_status"
    /\ IF IsSuccess(response.status)
       THEN fpc' = "strip" /\ UNCHANGED fexc
       ELSE fpc' = "except" /\ fexc' = "HTTPStatusError"
    /\ UNCHANGED <<fn, fkey, response, ftable, chunksize>>
    /\ UNCHANGED <<metricsVars, rankVars, affordVars, trendVars, endpointVars>>

\* if not response.text.strip(): return pd.DataFrame()
FetchStrip ==
    /\ fpc = "strip"
    /\ IF IsBlank(response.body)
       THEN fpc' = "returned" /\ ftable' = <<>>
       ELSE fpc' = "read_csv" /\ UNCHANGED ftable
    /\ UNCHANGED <<fn, fkey, response, fexc, chunksize>>
    /\ UNCHANGED <<metricsVars, rankVars, affordVars, trendVars, endpointVars>>

\* pd.read_csv(...), the cleaning, return df
FetchReadCsv ==
    /\ fpc = "read_csv"
    /\ IF ParseError(fn, response.body) # "none"
       THEN /\ fexc' = ParseError(fn, response.body)
            /\ fpc' = "except"
            /\ UNCHANGED ftable
       ELSE /\ ftable' = Parsed(fn, fkey, response.body)
            /\ fpc' = "returned"
            /\ UNCHANGED fexc
    /\ UNCHANGED <<fn, fkey, response, chunksize>>
    /\ UNCHANGED <<metricsVars, rankVars, affordVars, trendVars, endpointVars>>

\* except Exception as e: ... return pd.DataFrame(); anything the clause does
\* not catch leaves the coroutine and reaches the caller.
FetchExcept ==
    /\ fpc = "except"
    /\ IF Catches(fexc)
       THEN fpc' = "returned" /\ ftable' = <<>>
       ELSE fpc' = "raised" /\ UNCHANGED ftable
    /\ UNCHANGED <<fn, fkey, response, fexc, chunksize>>
    /\ UNCHANGED <<metricsVars, rankVars, affordVars, trendVars, endpointVars>>

InitFetch ==
    /\ fn = "none" /\ fkey = "none" /\ response = NoResponse
    /\ fexc = "none" /\ ftable = <<>> /\ fpc = "idle"
    /\ chunksize = ChunkSize
    /\ IdleMetrics /\ IdleRank /\ IdleAfford /\ IdleTrend /\ IdleEndpoint

NextFetch ==
    \/ FetchCall \/ FetchLookup \/ FetchGet \/ FetchRaiseForStatus
    \/ FetchStrip \/ FetchReadCsv \/ FetchExcept

SpecFetch == InitFetch /\ [][NextFetch]_vars

\* The chunked read on its own: a 200 response for county or zip whose CSV
\* body is supplied line by line, read with a chunksize small enough for the
\* body to span several chunks.  A line has a number or something else in
\* each of the five columns.
CsvLine(m, a, p, d, r) ==
    [ region |-> "A", month_date_yyyymm |-> m, active_listing_count |-> a,
      pending_listing_count |-> p, median_days_on_market |-> d,
      price_reduced_count |-> r ]
CsvLines ==
    { CsvLine(Some(202401), Some(50), Some(40), Some(30), Some(5)),
      CsvLine(Some(202402), Some(60), Some(40), Some(30), Some(5)),
      CsvLine(None, Some(50), Some(40), Some(30), Some(5)),
      CsvLine(Some(202403), None, Some(40), Some(30), Some(5)),
      CsvLine(Some(202403), Some(50), None, Some(30), Some(5)),
      CsvLine(Some(202403), Some(50), Some(40), None, Some(5)),
      CsvLine(Some(202403), Some(50), Some(40), Some(30), None) }
MaxCsvLines == 4
MaxChunk == 3

AppendCsvLine ==
    /\ fpc = "read_csv"
    /\ Len(response.body.rows) < MaxCsvLines
    /\ \E line \in CsvLines :
         response' = [response EXCEPT !.body.rows = Append(@, line)]
    /\ UNCHANGED <<fn, fkey, fexc, ftable, fpc, chunksize>>
    /\ UNCHANGED <<metricsVars, rankVars, affordVars, trendVars, endpointVars>>

InitChunks ==
    /\ fn = "fetch_realtor_data"
    /\ fkey \in {"county", "zip"}
    /\ response = [status |-> 200, body |-> [kind |-> "csv", rows |-> <<>>]]
    /\ fexc = "none" /\ ftable = <<>> /\ fpc = "read_csv"
    /\ chunksize \in 1..MaxChunk
    /\ IdleMetrics /\ IdleRank /\ IdleAfford /\ IdleTrend /\ IdleEndpoint

NextChunks == AppendCsvLine \/ FetchReadCsv

SpecChunks == InitChunks /\ [][NextChunks]_vars

(***************************************************************************)
(* Claims about the fetchers                                               *)
(***************************************************************************)

\* C10: the fetchers never raise to their caller; on an unknown key, a network
\* error, a non-2xx status, an empty body or a CSV parse/column failure they
\* return an empty table; a non-empty table is returned only when the request
\* succeeded (a response with a 2xx status) and the body parsed.
C10_FetchersSwallowFailures ==
    /\ fpc # "raised"
    /\ fpc = "returned" =>
         /\ ( \/ fkey \notin (IF fn = "fetch_realtor_data" THEN REALTOR_URLS
                              ELSE ZILLOW_AFFORDABILITY_URLS)
              \/ response = NoResponse
              \/ response.status \notin 200..299
              \/ response.body.kind \in {"empty", "blank", "garbage"}
              \/ (response.body.kind = "other_columns" /\ fn = "fetch_realtor_data") )
            => ftable = <<>>
         /\ ftable # <<>> =>
              /\ fexc = "none"
              /\ response # NoResponse
              /\ response.status \in 200..299
              /\ response.body.kind \in {"csv", "other_columns"}
              /\ response.body.rows # <<>>

\* A 200 response whose body read_csv cannot parse: the exception was raised,
\* handled, and an empty table returned.
C10_Witness ==
    /\ fpc = "returned"
    /\ fn = "fetch_realtor_data"
    /\ fkey = "zip"
    /\ response.status = 200
    /\ response.body.kind = "garbage"
    /\ fexc = "ParserError"
    /\ ftable = <<>>

\* The positions of the lines that have a number in the month column and in
\* all four metric columns.
KeptPos(rows) ==
    { i \in 1..Len(rows) :
        /\ rows[i].month_date_yyyymm # None
        /\ rows[i].active_listing_count # None
        /\ rows[i].pending_listing_count # None
        /\ rows[i].median_days_on_market # None
        /\ rows[i].price_reduced_count # None }

NthOf(K, i) == CHOOSE j \in K : Cardinality({ k \in K : k < j }) = i - 1

\* C16: for county and zip the table built from chunks holds exactly the
\* lines, in file order, that have a number in the month column and in all
\* four metric columns, which is what cleaning the whole body at once keeps,
\* wherever the chunk boundaries fall.
C16_ChunkedCleanEqualsWholeClean ==
    (fpc = "returned" /\ fexc = "none"
        /\ fn = "fetch_realtor_data" /\ fkey \in {"county", "zip"}
        /\ response # NoResponse /\ response.body.kind = "csv") =>
        LET rows == response.body.rows
            K    == KeptPos(rows)
        IN  /\ ftable = Clean(rows)
            /\ Len(ftable) = Cardinality(K)
            /\ \A i \in 1..Len(ftable) : ftable[i] = rows[NthOf(K, i)]

\* Four lines read in chunks of 2: a kept line, a dropped one, then across
\* the chunk boundary a dropped one and a kept one.
C16_Witness ==
    /\ fpc = "returned"
    /\ fkey = "zip"
    /\ chunksize = 2
    /\ Len(response.body.rows) = 4
    /\ KeptPos(response.body.rows) = {1, 4}
    /\ Len(ftable) = 2
    /\ ftable[1].month_date_yyyymm = Some(202401)
    /\ ftable[2].month_date_yyyymm = Some(202402)

(***************************************************************************)
(* The endpoints (server.py 64-79, 302-511, 699-869)                       *)
(*                                                                         *)
(* One request per behaviour.  The tables the fetchers hand to the handler *)
(* are the input: fetch_realtor_data and fetch_zillow_affordability_data   *)
(* return a table, empty after any failure, and do not raise.  A handler   *)
(* is an operator from the request and the fetched tables to its outcome   *)
(* [exc, body]: the exception raised inside its try block ("none" if       *)
(* none) and the value it returns; the except clause of the endpoint turns *)
(* the outcome into the HTTP response.                                     *)
(*                                                                         *)
(* A str is the sequence of its characters, so that int() and the str      *)
(* order can be computed.                                                  *)
(***************************************************************************)

Digits == <<"0", "1", "2", "3", "4", "5", "6", "7", "8", "9">>
\* the characters used, in code point order
Alphabet == Digits \o <<"A", "B", "a", "n">>
CharRank(c) == CHOOSE i \in 1..Len(Alphabet) : Alphabet[i] = c
IsDigit(c) == CharRank(c) <= Len(Digits)

\* int(s) does not raise ValueError
IsIntLiteral(s) == s # <<>> /\ \A i \in 1..Len(s) : IsDigit(s[i])

\* int(s) for a string of digits
RECURSIVE IntOf(_)
IntOf(s) ==
    IF s = <<>> THEN 0
    ELSE 10 * IntOf(SubSeq(s, 1, Len(s) - 1)) + (CharRank(s[Len(s)]) - 1)

\* a < b for two str
RECURSIVE StrLess(_, _)
StrLess(a, b) ==
    IF b = <<>> THEN FALSE
    ELSE IF a = <<>> THEN TRUE
    ELSE IF a[1] = b[1] THEN StrLess(Tail(a), Tail(b))
    ELSE CharRank(a[1]) < CharRank(b[1])

\* Python values of different types: a str, an int, the float NaN.
PyStr(s) == [type |-> "str", value |-> s]
PyInt(k) == [type |-> "int", value |-> k]
PyNaN == [type |-> "float", value |-> <<>>]

\* a == b as pandas evaluates it element by element: values of different
\* types are unequal, and NaN equals nothing.
PyEq(a, b) == a.type = b.type /\ a.type # "float" /\ a.value = b.value

\* The region column holds a str, or NaN where the CSV field is empty.
NaNName == <<"NaN">>
RegionCell(name) == IF name = NaNName THEN PyNaN ELSE PyStr(name)

\* .astype(str)
AsStr(name) == IF name = NaNName THEN <<"n", "a", "n">> ELSE name

Body(kind, value) == [kind |-> kind, value |-> value]
NoBody == Body("none", <<>>)
EmptyDict == Body("dict", <<>>)
EmptyList == Body("list", <<>>)

Ok(body) == [exc |-> "none", body |-> body]
Raise(e) == [exc |-> e, body |-> NoBody]

\* except Exception as e: raise HTTPException(status_code=500, detail=str(e))
Reply500(out) ==
    IF out.exc = "none" THEN [status |-> 200, body |-> out.body, detail |-> "none"]
    ELSE [status |-> 500, body |-> NoBody, detail |-> out.exc]

\* except Exception as e: ... return {}   (get_metrics, 509-511)
ReplyEmptyDict(out) ==
    IF out.exc = "none" THEN [status |-> 200, body |-> out.body, detail |-> "none"]
    ELSE [status |-> 200, body |-> EmptyDict, detail |-> "none"]

(***************************************************************************)
(* The realtor table of the request.  Region "01" carries the history;     *)
(* "1" and "A" and a row without a region name have one row each.          *)
(***************************************************************************)

Granularities == {"metro", "county", "zip"}
RegionIds == { <<"0", "1">>, <<"1">>, <<"A">> }
RegionOrder == << <<"0", "1">>, <<"1">>, <<"A">>, NaNName >>
RegionRank(name) == CHOOSE i \in 1..Len(RegionOrder) : RegionOrder[i] = name

ApiMonths == {201703, 201803, 201903, 202303, 202402, 202403}
ApiCounts == {<<0, 40>>, <<40, 40>>, <<80, 20>>}
ApiRow(name, m, a, p) ==
    [ region |-> name, ym |-> m, active |-> a, pending |-> p,
      median_days |-> 30, price_reduced |-> 5 ]
ApiRows ==
    { ApiRow(<<"0", "1">>, m, c[1], c[2]) : m \in ApiMonths, c \in ApiCounts }
    \cup { ApiRow(name, 202403, 40, 40) : name \in { <<"1">>, <<"A">>, NaNName } }
MaxTable == 4

DefaultN == 10
TwelveMonths == 100
MinHistory == 3

\* df[region_col].astype(str)
AsStrColumn(d) == [i \in 1..Len(d) |-> [d[i] EXCEPT !.region = AsStr(@)]]

\* The table as fetch_realtor_data returns it: for zip the postal_code column
\* is made str (line 135), other granularities keep the column as read.
TableFor(g, d) == IF g = "zip" THEN AsStrColumn(d) ELSE d

Named(d) == \A i \in 1..Len(d) : d[i].region # NaNName

\* get_market_balance (302-368), inside the try block
EmptyBalance ==
    [ active  |-> [top |-> <<>>, bottom |-> <<>>],
      pending |-> [top |-> <<>>, bottom |-> <<>>],
      ratio   |-> [top |-> <<>>, bottom |-> <<>>] ]

get_market_balance(d) ==
    IF d = <<>> THEN Ok(Body("balance", EmptyBalance))
    ELSE LET rs == calculate_metrics(d)
         IN  IF rs = <<>> THEN Ok(Body("balance", EmptyBalance))
             ELSE Ok(Body("balance",
                     [ active  |-> [top    |-> get_top(rs, "active", DefaultN),
                                    bottom |-> get_bottom(rs, "active", DefaultN)],
                       pending |-> [top    |-> get_top(rs, "pending", DefaultN),
                                    bottom |-> get_bottom(rs, "pending", DefaultN)],
                       ratio   |-> [top    |-> get_top(rs, "ratio", DefaultN),
                                    bottom |-> get_bottom(rs, "ratio", DefaultN)] ]))

\* regions.sort(): ascending str order
RECURSIVE InsertName(_, _)
InsertName(s, x) ==
    IF s = <<>> THEN <<x>>
    ELSE IF StrLess(x, Head(s)) THEN <<x>> \o s
    ELSE <<Head(s)>> \o InsertName(Tail(s), x)

RECURSIVE SortNames(_)
SortNames(s) ==
    IF s = <<>> THEN <<>>
    ELSE InsertName(SortNames(SubSeq(s, 1, Len(s) - 1)), s[Len(s)])

\* [{"id": str(i), "name": name} for i, name in enumerate(regions)]; the id
\* is held as the number i
RegionList(names) == [i \in 1..Len(names) |-> [id |-> i - 1, name |-> names[i]]]

\* get_regions (370-392), inside the try block.  Sorting a list that holds
\* a str and the float NaN compares the two and raises TypeError.
get_regions(g, fetched) ==
    LET d       == TableFor(g, fetched)
        pre     == IF g = "zip" THEN AsStrColumn(d) ELSE d
        regions == Unique(Column(pre, "region"))
    IN  IF d = <<>> THEN Ok(EmptyList)
        ELSE IF Len(regions) >= 2 /\ \E i \in 1..Len(regions) : regions[i] = NaNName
             THEN Raise("TypeError")
        ELSE Ok(Body("list", RegionList(SortNames(regions))))

\* The rows of df the region filter keeps (405-412).  For zip the column was
\* made str by the fetcher and is compared with int(region).
RegionFilter(g, d, region) ==
    IF g = "zip"
    THEN SelectSeq(d, LAMBDA row : PyEq(PyStr(row.region), PyInt(IntOf(region))))
    ELSE SelectSeq(d, LAMBDA row : PyEq(RegionCell(row.region), PyStr(region)))

\* f"{int(month//100)}-{int(month%100):02d}", held as <<year, month>>
MonthStr(month) == <<month \div 100, month % 100>>

\* the months of s in ascending order: sorted(s.unique())
SortedMonths(s) ==
    LET M == { s[i] : i \in 1..Len(s) }
    IN  [ i \in 1..Cardinality(M) |->
            CHOOSE m \in M : Cardinality({ k \in M : k < m }) = i - 1 ]

\* df[(ym >= 201601) & (ym <= 201912) & (ym % 100 == month_num)]  (436-440)
HistoricalData(d, month) ==
    SelectSeq(d, LAMBDA row :
        row.ym >= PreStart /\ row.ym <= PreEnd /\ row.ym % 100 = month % 100)

\* The entry appended to metrics[metric] for one month (446-469): the mean
\* is the exact rational <<sum, count>>, the percent change is in hundredths.
MetricEntry(d, recent_data, month, col) ==
    LET month_data == SelectSeq(recent_data, LAMBDA row : row.ym = month)
        current    == month_data[1][col]
        valid      == Valid(Column(HistoricalData(d, month), col))
    IN  IF Len(valid) >= MinHistory
        THEN [ month         |-> MonthStr(month),
               current       |-> Some(current),
               historical    |-> Some(<<SumSeq(valid), Len(valid)>>),
               percentChange |-> Some(PctChange(current, SumSeq(valid), Len(valid))) ]
        ELSE [ month         |-> MonthStr(month),
               current       |-> Some(current),
               historical    |-> None,
               percentChange |-> None ]

\* What one month adds to metrics['pending_ratio'] (474-506): 0 or 1 entry.
\* hist_active is a mean of positive values, so hist_active > 0 holds.
RatioEntry(d, recent_data, month) ==
    LET month_data == SelectSeq(recent_data, LAMBDA row : row.ym = month)
        ca == month_data[1].active
        cp == month_data[1].pending
        va == Valid(Column(HistoricalData(d, month), "active"))
        vp == Valid(Column(HistoricalData(d, month), "pending"))
    IN  IF Len(va) >= MinHistory /\ Len(vp) >= MinHistory
        THEN IF ca > 0
             THEN << [ month         |-> MonthStr(month),
                       current       |-> Some(RoundDiv(10000 * cp, ca)),
                       historical    |-> Some(RoundDiv(10000 * SumSeq(vp) * Len(va),
                                                       Len(vp) * SumSeq(va))),
                       percentChange |-> Some(RatioChange(ca, cp, SumSeq(va), Len(va),
                                                          SumSeq(vp), Len(vp))) ] >>
             ELSE << >>
        ELSE << [ month         |-> MonthStr(month),
                  current       |-> IF ca > 0 THEN Some(RoundDiv(10000 * cp, ca)) ELSE None,
                  historical    |-> None,
                  percentChange |-> None ] >>

RECURSIVE RatioSeries(_, _, _)
RatioSeries(d, recent_data, months) ==
    IF months = <<>> THEN <<>>
    ELSE RatioEntry(d, recent_data, Head(months)) \o RatioSeries(d, recent_data, Tail(months))

\* The metrics dict built from the region's rows (417-508).
MetricsDict(d) ==
    LET latest      == MaxSeq(Column(d, "ym"))
        recent_data == SelectSeq(d, LAMBDA row : row.ym > latest - TwelveMonths)
        months      == SortedMonths(Column(recent_data, "ym"))
        SeriesOf(col) == [i \in 1..Len(months) |-> MetricEntry(d, recent_data, months[i], col)]
    IN  [ active_listing_count  |-> SeriesOf("active"),
          pending_listing_count |-> SeriesOf("pending"),
          pending_ratio         |-> RatioSeries(d, recent_data, months),
          median_days_on_market |-> SeriesOf("median_days"),
          price_reduced_count   |-> SeriesOf("price_reduced") ]

\* get_metrics (394-508), inside the try block
get_metrics(g, region, fetched) ==
    LET d == TableFor(g, fetched)
    IN  IF d = <<>> THEN Ok(EmptyDict)
        ELSE IF g = "zip" /\ ~IsIntLiteral(region) THEN Raise("ValueError")
        ELSE LET rows == RegionFilter(g, d, region)
             IN  IF rows = <<>> THEN Ok(EmptyDict)
                 ELSE Ok(Body("metrics", MetricsDict(rows)))

\* The table fetch_realtor_data returns, newest month first.
ApiAppendRow ==
    /\ epc = "load"
    /\ Len(table) < MaxTable
    /\ \E row \in ApiRows :
         /\ IF table = <<>> THEN TRUE
            ELSE LET last == table[Len(table)]
                 IN  \/ row.ym < last.ym
                     \/ row.ym = last.ym /\ RegionRank(last.region) < RegionRank(row.region)
         /\ table' = Append(table, row)
    /\ UNCHANGED <<request, zillow, tasks, finished, raised, http, epc>>
    /\ UNCHANGED <<metricsVars, rankVars, affordVars, trendVars, fetchVars>>

\* GET /api/market-balance
GetMarketBalance ==
    /\ epc = "load"
    /\ Named(table)
    /\ LET out == get_market_balance(table)
       IN  /\ request' = [endpoint |-> "market-balance", granularity |-> "metro", region |-> <<>>]
           /\ raised' = out.exc
           /\ http' = Reply500(out)
    /\ epc' = "responded"
    /\ UNCHANGED <<table, zillow, tasks, finished>>
    /\ UNCHANGED <<metricsVars, rankVars, affordVars, trendVars, fetchVars>>

\* GET /api/regions?granularity=g
GetRegions ==
    /\ epc = "load"
    /\ \E g \in Granularities :
         LET out == get_regions(g, table)
         IN  /\ request' = [endpoint |-> "regions", granularity |-> g, region |-> <<>>]
             /\ raised' = out.exc
             /\ http' = Reply500(out)
    /\ epc' = "responded"
    /\ UNCHANGED <<table, zillow, tasks, finished>>
    /\ UNCHANGED <<metricsVars, rankVars, affordVars, trendVars, fetchVars>>

\* GET /api/metrics/{g}/{region}
GetMetrics ==
    /\ epc = "load"
    /\ \E g \in Granularities, region \in RegionIds :
         LET out == get_metrics(g, region, table)
         IN  /\ request' = [endpoint |-> "metrics", granularity |-> g, region |-> region]
             /\ raised' = out.exc
             /\ http' = ReplyEmptyDict(out)
    /\ epc' = "responded"
    /\ UNCHANGED <<table, zillow, tasks, finished>>
    /\ UNCHANGED <<metricsVars, rankVars, affordVars, trendVars, fetchVars>>

(***************************************************************************)
(* GET /api/zillow-data (64-79), step by step.  asyncio.gather wraps the   *)
(* two client.get coroutines in tasks that run concurrently; a task        *)
(* finishes with the response of its URL or with an exception.  gather     *)
(* hands the results back in the order of its arguments once every task    *)
(* is done, and propagates the first exception as soon as it is raised,    *)
(* without waiting for or cancelling the other task.                       *)
(***************************************************************************)

ZILLOW_URLS == <<"allHomes", "sfrOnly">>
Texts == {"csv1", "csv2"}

Task(url) == [url |-> url, state |-> "pending", text |-> "none", exc |-> "none"]

\* Variant of gather that lists the results in the order the tasks finished.
GatherResults_InCompletionOrder(ts, order) == [i \in 1..Len(ts) |-> ts[order[i]]]

\* responses = await asyncio.gather(a, b): responses[i] is the result of the
\* i-th argument
GatherResults(ts, order) == [i \in 1..Len(ts) |-> ts[i]]

AllDone(ts) == \A i \in 1..Len(ts) : ts[i].state = "done"
SomeRaised(ts) == \E i \in 1..Len(ts) : ts[i].state = "raised"
\* the exception of the task that raised first
FirstRaised(ts, order) ==
    LET k == CHOOSE j \in 1..Len(order) :
                 /\ ts[order[j]].state = "raised"
                 /\ \A l \in 1..(j - 1) : ts[order[l]].state # "raised"
    IN  ts[order[k]].exc

\* asyncio.gather(client.get(ZILLOW_URLS['allHomes']), client.get(ZILLOW_URLS['sfrOnly']))
ZillowGather ==
    /\ epc = "load"
    /\ table = <<>>
    /\ request' = [endpoint |-> "zillow-data", granularity |-> "none", region |-> <<>>]
    /\ tasks' = [i \in 1..Len(ZILLOW_URLS) |-> Task(ZILLOW_URLS[i])]
    /\ epc' = "gather"
    /\ UNCHANGED <<table, zillow, finished, raised, http>>
    /\ UNCHANGED <<metricsVars, rankVars, affordVars, trendVars, fetchVars>>

\* One of the two requests ends: the provider answers, or the transport raises.
ZillowTaskFinishes ==
    /\ epc = "gather"
    /\ \E i \in 1..Len(tasks) :
         /\ tasks[i].state = "pending"
         /\ \/ \E t \in Texts :
                 tasks' = [tasks EXCEPT ![i].state = "done", ![i].text = t]
            \/ \E e \in NetworkErrors :
                 tasks' = [tasks EXCEPT ![i].state = "raised", ![i].exc = e]
         /\ finished' = Append(finished, i)
    /\ UNCHANGED <<request, table, zillow, raised, http, epc>>
    /\ UNCHANGED <<metricsVars, rankVars, affordVars, trendVars, fetchVars>>

\* return {"allHomes": responses[0].text, "sfrOnly": responses[1].text}
ZillowReturn ==
    /\ epc = "gather"
    /\ AllDone(tasks)
    /\ LET responses == GatherResults(tasks, finished)
       IN  http' = Reply500(Ok(Body("zillow", [ allHomes |-> responses[1].text,
                                                sfrOnly  |-> responses[2].text ])))
    /\ epc' = "responded"
    /\ UNCHANGED <<request, table, zillow, tasks, finished, raised>>
    /\ UNCHANGED <<metricsVars, rankVars, affordVars, trendVars, fetchVars>>

\* except Exception as e: raise HTTPException(status_code=500, detail=str(e))
ZillowExcept ==
    /\ epc = "gather"
    /\ SomeRaised(tasks)
    /\ raised' = FirstRaised(tasks, finished)
    /\ http' = Reply500(Raise(FirstRaised(tasks, finished)))
    /\ epc' = "responded"
    /\ UNCHANGED <<request, table, zillow, tasks, finished>>
    /\ UNCHANGED <<metricsVars, rankVars, affordVars, trendVars, fetchVars>>

(***************************************************************************)
(* The affordability endpoints (699-869).  /api/affordability-summary      *)
(* and /api/affordability-regions read the latest column and the names     *)
(* only and get tables of [RegionName, latest] rows;                       *)
(* /api/affordability-metrics/{region} gets six tables with date columns.  *)
(***************************************************************************)

Sequences2(S) == UNION { [1..k -> S] : k \in 0..2 }
SummaryHomeowner ==
    Sequences2({ [RegionName |-> r, latest |-> c] : r \in {"R1", "R2"}, c \in {None, Some(30)} })
SummaryRenter ==
    Sequences2({ [RegionName |-> r, latest |-> Some(20)] : r \in {"R1", "R2"} })

\* get_affordability_summary (699-733), inside the try block
get_affordability_summary(hdf, rdf) == Ok(Body("summary", affordability_summary(hdf, rdf)))

NameRank(name) == CHOOSE i \in 1..Len(RegionNames) : RegionNames[i] = name

\* regions.sort() for the names R1..R5
SortedRegionNames(s) ==
    LET N == { s[i] : i \in 1..Len(s) }
    IN  [ i \in 1..Cardinality(N) |->
            CHOOSE x \in N : Cardinality({ y \in N : NameRank(y) < NameRank(x) }) = i - 1 ]

\* get_affordability_regions (853-865), inside the try block
get_affordability_regions(hdf) ==
    IF hdf = <<>> THEN Ok(EmptyList)
    ELSE Ok(Body("list", RegionList(SortedRegionNames(Unique(Column(hdf, "RegionName"))))))

DataTypes ==
    <<"homeowner", "renter", "total_payment", "mortgage_payment", "affordable_price",
      "median_price">>
ApiDates == {20240131, 20240229, 20240331}

\* pd.DataFrame(): what a failed fetch returns
EmptyTable == [columns |-> {}, rows |-> <<>>]
\* A table of region R1 alone over three months; the value depends on the
\* data type k and the month.
FullTable(k) ==
    [ columns |-> ApiDates,
      rows    |-> << [ RegionName |-> "R1",
                       values |-> [ d \in ApiDates |->
                                      Some(10 * k + ((d \div 100) % 100) * ((k % 3) + 1)) ] ] >> ]
\* The same with the middle month missing.
GappyTable(k) ==
    [ FullTable(k) EXCEPT !.rows[1].values[20240229] = None ]
\* A table of R1 and R2 with one date column.
ShortTable(k) ==
    [ columns |-> {20240131},
      rows    |-> << [RegionName |-> "R1", values |-> [d \in {20240131} |-> Some(10 * k)]],
                     [RegionName |-> "R2", values |-> [d \in {20240131} |-> Some(10 * k + 5)]] >> ]
TablesOf(k) == { EmptyTable, FullTable(k), GappyTable(k), ShortTable(k) }
\* one table per data type, in the order of DataTypes
ZillowTables ==
    { <<t1, t2, t3, t4, t5, t6>> :
        t1 \in TablesOf(1), t2 \in TablesOf(2), t3 \in TablesOf(3),
        t4 \in TablesOf(4), t5 \in TablesOf(5), t6 \in TablesOf(6) }
PathRegions == {"R1", "R2"}

\* sorted(list(all_date_columns))
SortedDates(D) ==
    [ i \in 1..Cardinality(D) |-> CHOOSE d \in D : Cardinality({ e \in D : e < d }) = i - 1 ]

\* df[df['RegionName'] == region][date].iloc[0] raises IndexError
NoRowFor(t, region, date) == date \in t.columns /\ Matching(t.rows, region) = <<>>

\* float(value) if pd.notna(value) else None, None if the table lacks the column
ValueAt(t, region, date) ==
    IF date \in t.columns THEN Matching(t.rows, region)[1].values[date] ELSE None

\* a - b when both are available
Gap(a, b) == IF a # None /\ b # None THEN Some(a[1] - b[1]) ELSE None

\* The data_point of one date (770-827), before the trends are added.
DataPoint(T, region, date) ==
    LET v == [k \in 1..Len(DataTypes) |-> ValueAt(T[k], region, date)]
    IN  [ month                  |-> date \div 100,
          homeownerAffordability |-> v[1],
          renterAffordability    |-> v[2],
          affordabilityGap       |-> Gap(v[1], v[2]),
          totalPayment           |-> v[3],
          mortgagePayment        |-> v[4],
          paymentGap             |-> Gap(v[3], v[4]),
          affordablePrice        |-> v[5],
          medianPrice            |-> v[6],
          priceGap               |-> Gap(v[6], v[5]) ]

\* a gap as an input point of calculate_regression_trend
PointOf(cell) == IF cell = None THEN NoneCell ELSE Num(cell[1])

\* get_affordability_metrics (739-847), inside the try block.  The data
\* points are built in ascending date order, so the stable sort by month of
\* line 832 leaves them in place.
get_affordability_metrics(region, T) ==
    LET D      == UNION { T[k].columns : k \in 1..Len(DataTypes) }
        dates  == SortedDates(D)
        points == [i \in 1..Len(dates) |-> DataPoint(T, region, dates[i])]
        gap_trends   == calculate_regression_trend(
                            [i \in 1..Len(points) |-> PointOf(points[i].affordabilityGap)])
        price_trends == calculate_regression_trend(
                            [i \in 1..Len(points) |-> PointOf(points[i].priceGap)])
    IN  IF \E d \in D, k \in 1..Len(DataTypes) : NoRowFor(T[k], region, d)
        THEN Raise("IndexError")
        ELSE Ok(Body("list",
                [ i \in 1..Len(points) |->
                    [ point      |-> points[i],
                      gapTrend   |-> gap_trends[i],
                      priceTrend |-> price_trends[i] ] ]))

\* GET /api/affordability-summary
GetAffordabilitySummaryRequest ==
    /\ epc = "load"
    /\ table = <<>>
    /\ \E hdf \in SummaryHomeowner, rdf \in SummaryRenter :
         LET out == get_affordability_summary(hdf, rdf)
         IN  /\ zillow' = <<hdf, rdf>>
             /\ raised' = out.exc
             /\ http' = Reply500(out)
    /\ request' = [endpoint |-> "affordability-summary", granularity |-> "none", region |-> <<>>]
    /\ epc' = "responded"
    /\ UNCHANGED <<table, tasks, finished>>
    /\ UNCHANGED <<metricsVars, rankVars, affordVars, trendVars, fetchVars>>

\* GET /api/affordability-regions
GetAffordabilityRegions ==
    /\ epc = "load"
    /\ table = <<>>
    /\ \E hdf \in SummaryHomeowner :
         LET out == get_affordability_regions(hdf)
         IN  /\ zillow' = <<hdf>>
             /\ raised' = out.exc
             /\ http' = Reply500(out)
    /\ request' = [endpoint |-> "affordability-regions", granularity |-> "none", region |-> <<>>]
    /\ epc' = "responded"
    /\ UNCHANGED <<table, tasks, finished>>
    /\ UNCHANGED <<metricsVars, rankVars, affordVars, trendVars, fetchVars>>

\* GET /api/affordability-metrics/{region}
GetAffordabilityMetrics ==
    /\ epc = "load"
    /\ table = <<>>
    /\ \E region \in PathRegions, T \in ZillowTables :
         LET out == get_affordability_metrics(region, T)
         IN  /\ request' = [endpoint |-> "affordability-metrics", granularity |-> "none",
                            region |-> region]
             /\ zillow' = T
             /\ raised' = out.exc
             /\ http' = Reply500(out)
    /\ epc' = "responded"
    /\ UNCHANGED <<table, tasks, finished>>
    /\ UNCHANGED <<metricsVars, rankVars, affordVars, trendVars, fetchVars>>

InitApi ==
    /\ request = NoRequest /\ table = <<>> /\ zillow = <<>> /\ tasks = <<>>
    /\ finished = <<>> /\ raised = "none" /\ http = NoReply /\ epc = "load"
    /\ IdleMetrics /\ IdleRank /\ IdleAfford /\ IdleTrend /\ IdleFetch

NextApi ==
    \/ ApiAppendRow \/ GetMarketBalance \/ GetRegions \/ GetMetrics
    \/ ZillowGather \/ ZillowTaskFinishes \/ ZillowReturn \/ ZillowExcept
    \/ GetAffordabilitySummaryRequest \/ GetAffordabilityRegions \/ GetAffordabilityMetrics

SpecApi == InitApi /\ [][NextApi]_vars

(***************************************************************************)
(* Claims about the endpoints                                              *)
(***************************************************************************)

Responded(endpoint) == epc = "responded" /\ request.endpoint = endpoint

\* C11: whenever an exception reaches the except clause of an endpoint, the
\* response is HTTP 500 with the exception message as detail; no endpoint
\* answers such a request with a 200.
C11_EscapedExceptionIs500 ==
    (epc = "responded" /\ raised # "none") =>
        /\ http.status = 500
        /\ http.detail = raised

\* The months of the trailing window of the rows of region reg in table d.
RowsOfRegion(d, reg) == SelectSeq(d, LAMBDA row : AsStr(row.region) = reg)
WindowMonths(rows) ==
    LET M == { rows[i].ym : i \in 1..Len(rows) }
    IN  { m \in M : \A k \in M : m > k - 100 }
MonthsOfSeries(s) == [i \in 1..Len(s) |-> s[i].month]
AscendingMonths(M) ==
    [ i \in 1..Cardinality(M) |->
        LET m == CHOOSE x \in M : Cardinality({ y \in M : y < x }) = i - 1
        IN  <<m \div 100, m % 100>> ]

\* C17: for zip, when the region path parameter equals the postal_code of at
\* least one row of the fetched table, the response is the non-empty metrics
\* of exactly those rows.
C17_ZipLookupFindsPostalCode ==
    (Responded("metrics") /\ request.granularity = "zip"
        /\ RowsOfRegion(table, request.region) # <<>>) =>
        /\ http.status = 200
        /\ http.body.kind = "metrics"
        /\ MonthsOfSeries(http.body.value.active_listing_count) =
              AscendingMonths(WindowMonths(RowsOfRegion(table, request.region)))

\* C18: in a non-empty metrics response each of the five series has exactly
\* one entry per month of the region's trailing window, in ascending month
\* order.
C18_FiveSeriesAligned ==
    (Responded("metrics") /\ http.body.kind = "metrics") =>
        LET labels == AscendingMonths(WindowMonths(RowsOfRegion(table, request.region)))
            m      == http.body.value
        IN  /\ MonthsOfSeries(m.active_listing_count) = labels
            /\ MonthsOfSeries(m.pending_listing_count) = labels
            /\ MonthsOfSeries(m.pending_ratio) = labels
            /\ MonthsOfSeries(m.median_days_on_market) = labels
            /\ MonthsOfSeries(m.price_reduced_count) = labels

\* The request met a component-level failure: a fetch returned an empty
\* table, or the requested region is in none of the rows of a fetched table.
EmptyFetch ==
    \/ request.endpoint \in {"market-balance", "regions", "metrics"} /\ table = <<>>
    \/ /\ request.endpoint \in {"affordability-summary", "affordability-regions"}
       /\ \E k \in 1..Len(zillow) : zillow[k] = <<>>
    \/ /\ request.endpoint = "affordability-metrics"
       /\ \E k \in 1..Len(zillow) : zillow[k] = EmptyTable
RegionAbsent ==
    \/ /\ request.endpoint = "metrics"
       /\ RowsOfRegion(table, request.region) = <<>>
    \/ /\ request.endpoint = "affordability-metrics"
       /\ \E k \in 1..Len(zillow) : Matching(zillow[k].rows, request.region) = <<>>

\* C12: an empty fetch or a requested region that is absent from the fetched
\* data is answered with a 200 and an empty or partial body, never with a
\* 500.
C12_ComponentFailureIs200 ==
    (epc = "responded" /\ (EmptyFetch \/ RegionAbsent)) => http.status = 200

\* C13 as stated: the response is sent only after both fetches completed;
\* a 200 carries the text of the allHomes URL in allHomes and that of the
\* sfrOnly URL in sfrOnly; if a fetch raised the response is a 500 without a
\* body.
TextOf(url) == tasks[CHOOSE i \in 1..Len(tasks) : tasks[i].url = url].text
ZillowOutcome ==
    /\ http.status = 200 =>
         /\ AllDone(tasks)
         /\ http.body = Body("zillow", [allHomes |-> TextOf("allHomes"),
                                        sfrOnly  |-> TextOf("sfrOnly")])
    /\ SomeRaised(tasks) =>
         /\ http.status = 500
         /\ http.body = NoBody
         /\ http.detail = FirstRaised(tasks, finished)
    /\ http.status \in {200, 500}

C13_RespondsAfterBothFetches ==
    Responded("zillow-data") =>
        /\ \A i \in 1..Len(tasks) : tasks[i].state # "pending"
        /\ ZillowOutcome

\* C13 amended: both fetches are in flight together; a 200 is sent only
\* after both completed and maps each URL's text to its key whatever the
\* completion order; if a fetch raised, the response is a 500 with the first
\* exception as detail and no body, and it may be sent while the other
\* fetch is still pending.
C13_BothFetchesOr500 ==
    /\ epc = "gather" =>
         /\ Len(tasks) = 2
         /\ finished = <<>> => \A i \in 1..2 : tasks[i].state = "pending"
    /\ Responded("zillow-data") =>
         /\ ZillowOutcome
         /\ (\E i \in 1..Len(tasks) : tasks[i].state = "pending") => http.status = 500

\* The sfrOnly fetch completed first with another text than the allHomes
\* fetch, and the 200 response was sent.
C13_Witness ==
    /\ Responded("zillow-data")
    /\ http.status = 200
    /\ finished = <<2, 1>>
    /\ tasks[1].text = "csv1" /\ tasks[2].text = "csv2"
    /\ http.body.value.allHomes = "csv1"


====
